---- MODULE Spec2Model ----
(***************************************************************************)
(* Model of the Duat runner (src/src/main.rs): the reload supervisor loop  *)
(* of main, the filesystem watcher callback of spawn_watcher, the first    *)
(* compilation through run_cargo and the entry-point lookup of             *)
(* find_run_duat.                                                          *)
(*                                                                         *)
(* The configuration module's entry point and the built-in run_duat are    *)
(* opaque to the runner: an invocation processes application events and    *)
(* returns a file collection and the receiver it was given.                *)
(*                                                                         *)
(* Abstractions: a file collection is its number of views (0 = empty);     *)
(* an artifact path is one of the four watched locations; the log is the   *)
(* set of the kinds of lines written; the reload instant only changes the  *)
(* text of a log line and is left out; closing a library (dlclose) is      *)
(* taken to succeed; a value that was moved out of a variable reads as     *)
(* the empty value until the variable is assigned again.                   *)
(***************************************************************************)
EXTENDS Naturals, Sequences, FiniteSets

\* ---------------------------------------------------------------- bounds
MaxCycles == 2      \* invocations explored per run of the process
MaxSignals == 2     \* Watch Signals pending in the reload channel
MaxQ == 2           \* application events pending in the event channel
MaxFiles == 1       \* views in a returned file collection

\* ------------------------------------------------------------- constants
\* The four watched directories (main.rs 219-224), each with CONFIG_FILE.
Locs == {"debug", "release", "tdebug", "trelease"}

\* so_dir of main (78-88): the two directories probed at bootstrap.
SoDirs(da) == IF da THEN <<"debug", "tdebug">> ELSE <<"release", "trelease">>

\* so_path.ends_with("release/{CONFIG_FILE}") (198)
OnRelease(loc) == loc \in {"release", "trelease"}

NoLib == [id |-> 0, path |-> "none"]

\* The pair sent on reload_tx (200).
Signal(loc) == [so_path |-> loc, on_release |-> OnRelease(loc)]

Files == 0..MaxFiles

\* The artifact layouts a run starts from: none, only the target-qualified
\* release directory, all four.
InitFs == {{}, {"trelease"}, Locs}

\* The directories in which the explored runs see artifacts created: one
\* Debug and one Release directory.
CreatedLocs == {"debug", "trelease"}

VARIABLES
    pc,               \* position of the main thread
    crate_exists,     \* duat_core::crate_dir() exists on disk
    debug_assertions, \* cfg!(debug_assertions) of the runner build
    fs,               \* locations in which main finds an artifact when
                      \* it probes them at bootstrap
    cargo,            \* outcome of the first compilation
    logs,             \* kinds of lines written to the logging sink
    lib,              \* `lib`: Option<Library> for the next cycle
    running_lib,      \* `running_lib`: Option<Library> of this cycle
    run_fn,           \* `run_fn`: id of the library the symbol is from
    open_libs,        \* ids of the libraries currently open
    watcher,          \* `_watcher`: result of spawn_watcher
    sent_reload,      \* `sent_reload` of the watcher callback
    reload_q,         \* reload channel (reload_tx -> reload_rx)
    duat_q,           \* application event channel (duat_tx -> duat_rx)
    duat_rx,          \* `duat_rx`: identity of the receiver main holds
    prev,             \* `prev`: file collection main holds
    worker,           \* state of the invocation (scoped worker thread)
    inv_kind,         \* what the invocation of this cycle runs
    inv_lib,          \* library the running entry point belongs to
    inv_files,        \* file collection handed to the invocation
    inv_rx,           \* receiver handed to the invocation
    ret_files,        \* file collection the invocation returned
    ret_rx,           \* receiver the invocation returned
    cycle,            \* invocations started so far
    n_recv,           \* Watch Signals consumed so far
    n_create,         \* artifact creations the callback has handled
    run_last,         \* place in reload_q of the last Watch Signal sent
                      \* while this cycle's invocation ran (0: none)
    forms,            \* process-wide forms table
    stale             \* the last Watch Signal taken left another one
                      \* pending in the reload channel

vars == <<pc, crate_exists, debug_assertions, fs, cargo, logs, lib,
          running_lib, run_fn, open_libs, watcher,
          sent_reload, reload_q, duat_q, duat_rx, prev, worker, inv_kind,
          inv_lib, inv_files, inv_rx, ret_files, ret_rx, cycle, n_recv,
          n_create, run_last, forms, stale>>

envVars == <<crate_exists, debug_assertions>>
libVars == <<lib, running_lib, run_fn, open_libs>>
watchVars == <<watcher, sent_reload, reload_q, n_create, run_last>>
invVars == <<worker, inv_kind, inv_lib, inv_files, inv_rx, ret_files,
             ret_rx, cycle>>

Terminal == {"done", "exit_err", "panicked"}

\* ------------------------------------------------------------------ Init
Init ==
    /\ pc = "start"
    /\ crate_exists \in BOOLEAN
    /\ debug_assertions \in BOOLEAN
    /\ fs \in (IF crate_exists THEN InitFs ELSE {{}})
    /\ cargo = "not_run"
    /\ logs = {}
    /\ lib = NoLib
    /\ running_lib = NoLib
    /\ run_fn = 0
    /\ open_libs = {}
    /\ watcher = "none"
    /\ sent_reload = FALSE
    /\ reload_q = <<>>
    /\ duat_q = <<>>
    /\ duat_rx = 0
    /\ prev = 0
    /\ worker = "idle"
    /\ inv_kind = "none"
    /\ inv_lib = NoLib
    /\ inv_files = 0
    /\ inv_rx = 0
    /\ ret_files = 0
    /\ ret_rx = 0
    /\ cycle = 0
    /\ n_recv = 0
    /\ n_create = 0
    /\ run_last = 0
    /\ forms = "clean"
    /\ stale = FALSE

\* ------------------------------------------------------------- bootstrap
\* Variant of Probed that probes all four candidate directories.
Probed_AllLocs == Locs

\* libconfig_path.map(|p| p.try_exists()) of the two probed directories.
Probed == {SoDirs(debug_assertions)[i] : i \in 1..2}

NoArtifact == Probed \cap fs = {}

\* .into_iter().find(|p| matches!(p.try_exists(), Ok(true)))  (109-111)
FirstArtifact ==
    IF SoDirs(debug_assertions)[1] \in fs
    THEN SoDirs(debug_assertions)[1]
    ELSE SoDirs(debug_assertions)[2]

\* Variant of CheckCrateDir that does not test whether the crate exists.
CheckCrateDir_NoFilter ==
    /\ pc = "start"
    /\ pc' = "probe"
    /\ UNCHANGED <<envVars, fs, cargo, logs, libVars, watchVars, duat_q,
                   duat_rx, prev, invVars, n_recv, forms, stale>>

\* main 67-75: without a config crate, run the default config once.
CheckCrateDir ==
    /\ pc = "start"
    /\ IF crate_exists
       THEN /\ pc' = "probe"
            /\ UNCHANGED <<logs, invVars>>
       ELSE /\ pc' = "default_run"
            /\ logs' = logs \cup {"NoCrate"}
            /\ worker' = "running"
            /\ inv_kind' = "fallback"
            /\ inv_lib' = NoLib
            /\ inv_files' = 0
            /\ inv_rx' = duat_rx
            /\ cycle' = cycle + 1
            /\ UNCHANGED <<ret_files, ret_rx>>
    /\ UNCHANGED <<envVars, fs, cargo, libVars, watchVars, duat_q, duat_rx,
                   prev, n_recv, forms, stale>>

\* main 72-74: the default run returns, its result is dropped, Ok(()).
DefaultReturn ==
    /\ pc = "default_run"
    /\ worker = "returned"
    /\ pc' = "done"
    /\ worker' = "idle"
    /\ UNCHANGED <<envVars, fs, cargo, logs, libVars, watchVars, duat_q,
                   duat_rx, prev, inv_kind, inv_lib, inv_files, inv_rx,
                   ret_files, ret_rx, cycle, n_recv, forms, stale>>

\* main 93-107 with run_cargo 241-270: compile when neither probed
\* location has an artifact.  `built` is where a successful build puts the
\* artifact; "none" is a failed build (non-zero exit or cargo not started).
FirstCompile(built) ==
    /\ pc = "probe"
    /\ NoArtifact
    /\ IF built = "none"
       THEN /\ cargo' = "failed"
            /\ logs' = logs \cup {"BuildFailed"}
            /\ fs' = fs
       ELSE /\ cargo' = "ok"
            /\ logs' = logs \cup {"Compiled"}
            /\ fs' = fs \cup {built}
    /\ pc' = "find"
    /\ UNCHANGED <<envVars, libVars, watchVars, duat_q, duat_rx, prev,
                   invVars, n_recv, forms, stale>>

\* main 93-95: an artifact is there, nothing is compiled.
SkipCompile ==
    /\ pc = "probe"
    /\ ~NoArtifact
    /\ pc' = "find"
    /\ UNCHANGED <<envVars, fs, cargo, logs, libVars, watchVars, duat_q,
                   duat_rx, prev, invVars, n_recv, forms, stale>>

\* main 109-115: find the artifact and open it; both failures leave main
\* through `?`.
FindAndOpen(ok) ==
    /\ pc = "find"
    /\ IF NoArtifact
       THEN /\ pc' = "exit_err"
            /\ UNCHANGED <<lib, open_libs>>
       ELSE IF ok
            THEN /\ pc' = "watcher"
                 /\ lib' = [id |-> 1, path |-> FirstArtifact]
                 /\ open_libs' = open_libs \cup {1}
            ELSE /\ pc' = "exit_err"
                 /\ UNCHANGED <<lib, open_libs>>
    /\ UNCHANGED <<envVars, fs, cargo, logs, running_lib, run_fn, watchVars,
                   duat_q, duat_rx, prev, invVars, n_recv, forms, stale>>

\* main 117-123 with spawn_watcher 184-239: `failing` is the first of the
\* four watches that cannot be established (0: all succeed).  The result
\* is bound to `_watcher` and not inspected.
SpawnWatcher(failing) ==
    /\ pc = "watcher"
    /\ watcher' = IF failing = 0 THEN "ok" ELSE "failed"
    /\ prev' = 0
    /\ pc' = "loop"
    /\ UNCHANGED <<envVars, fs, cargo, logs, libVars, sent_reload, reload_q,
                   n_create, run_last, duat_q, duat_rx, invVars, n_recv,
                   forms, stale>>

\* ------------------------------------------------------- supervisor loop
\* find_run_duat 272-276: lib.get(b"run"); `has_sym` is whether the
\* artifact exports the symbol.  The result names the library it borrows.
FindRunDuat(l, has_sym) == IF has_sym THEN l.id ELSE 0

\* main 126-134: take the library, resolve the entry point; a missing
\* library and a missing symbol are logged by the same inspect_err.
LoopTop(has_sym) ==
    /\ pc = "loop"
    /\ running_lib' = lib
    /\ lib' = NoLib
    /\ run_fn' = IF lib = NoLib THEN 0 ELSE FindRunDuat(lib, has_sym)
    /\ logs' = IF run_fn' = 0 THEN logs \cup {"RunFnErr"} ELSE logs
    /\ pc' = "spawn"
    /\ UNCHANGED <<envVars, fs, cargo, open_libs, watchVars, duat_q, duat_rx,
                   prev, invVars, n_recv, forms, stale>>

\* Variant of SpawnWorker that hands a fresh channel to every invocation.
SpawnWorker_FreshChannel ==
    /\ pc = "spawn"
    /\ worker' = "running"
    /\ inv_kind' = IF run_fn # 0 THEN "module" ELSE "fallback"
    /\ inv_lib' = IF run_fn # 0 THEN running_lib ELSE NoLib
    /\ logs' = IF run_fn # 0 THEN logs ELSE logs \cup {"FailedLoad"}
    /\ run_fn' = 0
    /\ inv_files' = prev
    /\ prev' = 0
    /\ inv_rx' = cycle + 1
    /\ duat_q' = <<>>
    /\ cycle' = cycle + 1
    /\ run_last' = 0
    /\ pc' = "join"
    /\ UNCHANGED <<envVars, fs, cargo, lib, running_lib, open_libs,
                   watcher, sent_reload, reload_q, n_create, duat_rx,
                   ret_files, ret_rx, n_recv, forms, stale>>

\* Variant of SpawnWorker that starts every invocation with a new, empty
\* file collection.
SpawnWorker_EmptyFiles ==
    /\ pc = "spawn"
    /\ worker' = "running"
    /\ inv_kind' = IF run_fn # 0 THEN "module" ELSE "fallback"
    /\ inv_lib' = IF run_fn # 0 THEN running_lib ELSE NoLib
    /\ logs' = IF run_fn # 0 THEN logs ELSE logs \cup {"FailedLoad"}
    /\ run_fn' = 0
    /\ inv_files' = 0
    /\ prev' = 0
    /\ inv_rx' = duat_rx
    /\ cycle' = cycle + 1
    /\ run_last' = 0
    /\ pc' = "join"
    /\ UNCHANGED <<envVars, fs, cargo, lib, running_lib, open_libs,
                   watcher, sent_reload, reload_q, n_create, duat_q,
                   duat_rx, ret_files, ret_rx, n_recv, forms, stale>>

\* Variant of SpawnWorker that keeps running the fallback once it has run.
SpawnWorker_StickyFallback ==
    /\ pc = "spawn"
    /\ worker' = "running"
    /\ inv_kind' = IF run_fn # 0 /\ "FailedLoad" \notin logs
                   THEN "module" ELSE "fallback"
    /\ inv_lib' = IF inv_kind' = "module" THEN running_lib ELSE NoLib
    /\ logs' = IF inv_kind' = "module"
               THEN logs ELSE logs \cup {"FailedLoad"}
    /\ run_fn' = 0
    /\ inv_files' = prev
    /\ prev' = 0
    /\ inv_rx' = duat_rx
    /\ cycle' = cycle + 1
    /\ run_last' = 0
    /\ pc' = "join"
    /\ UNCHANGED <<envVars, fs, cargo, lib, running_lib, open_libs,
                   watcher, sent_reload, reload_q, n_create, duat_q,
                   duat_rx, ret_files, ret_rx, n_recv, forms, stale>>

\* main 138-150: the scoped worker starts and takes run_fn, prev and
\* duat_rx; it runs the entry point, or the built-in run_duat.  `prev` is
\* moved into the call and holds nothing until the join.
SpawnWorker ==
    /\ pc = "spawn"
    /\ worker' = "running"
    /\ inv_kind' = IF run_fn # 0 THEN "module" ELSE "fallback"
    /\ inv_lib' = IF run_fn # 0 THEN running_lib ELSE NoLib
    /\ logs' = IF run_fn # 0 THEN logs ELSE logs \cup {"FailedLoad"}
    /\ run_fn' = 0
    /\ inv_files' = prev
    /\ prev' = 0
    /\ inv_rx' = duat_rx
    /\ cycle' = cycle + 1
    /\ run_last' = 0
    /\ pc' = "join"
    /\ UNCHANGED <<envVars, fs, cargo, lib, running_lib, open_libs,
                   watcher, sent_reload, reload_q, n_create, duat_q,
                   duat_rx, ret_files, ret_rx, n_recv, forms, stale>>

\* The invocation takes the next application event from its receiver.
WorkerConsume ==
    /\ worker = "running"
    /\ duat_q # <<>>
    /\ duat_q' = Tail(duat_q)
    /\ UNCHANGED <<pc, envVars, fs, cargo, logs, libVars, watchVars, duat_rx,
                   prev, invVars, n_recv, forms, stale>>

\* The invocation returns (files, receiver, instant): the receiver is the
\* one it was given; by then it has written the forms table, and the
\* collection it was given is gone.
WorkerReturn(files) ==
    /\ worker = "running"
    /\ worker' = "returned"
    /\ ret_files' = files
    /\ ret_rx' = inv_rx
    /\ inv_files' = 0
    /\ forms' = "dirty"
    /\ UNCHANGED <<pc, envVars, fs, cargo, logs, libVars, watchVars, duat_q,
                   duat_rx, prev, inv_kind, inv_lib, inv_rx, cycle, n_recv,
                   stale>>

\* The invocation panics.
WorkerPanic ==
    /\ worker = "running"
    /\ worker' = "panicked"
    /\ UNCHANGED <<pc, envVars, fs, cargo, logs, libVars, watchVars, duat_q,
                   duat_rx, prev, inv_kind, inv_lib, inv_files, inv_rx,
                   ret_files, ret_rx, cycle, n_recv, forms, stale>>

\* Variant of Join that does not wait for the worker to finish.
Join_NoWait ==
    /\ pc = "join"
    /\ worker \in {"running", "returned"}
    /\ worker' = IF worker = "returned" THEN "idle" ELSE worker
    /\ prev' = ret_files
    /\ ret_files' = 0
    /\ duat_rx' = ret_rx
    /\ pc' = "clear"
    /\ UNCHANGED <<envVars, fs, cargo, logs, libVars, watchVars, duat_q,
                   inv_kind, inv_lib, inv_files, inv_rx, ret_rx, cycle,
                   n_recv, forms, stale>>

\* main 138, 152-154: join the worker and move what it returned into
\* prev and duat_rx.
Join ==
    /\ pc = "join"
    /\ worker = "returned"
    /\ worker' = "idle"
    /\ prev' = ret_files
    /\ ret_files' = 0
    /\ duat_rx' = ret_rx
    /\ pc' = "clear"
    /\ UNCHANGED <<envVars, fs, cargo, logs, libVars, watchVars, duat_q,
                   inv_kind, inv_lib, inv_files, inv_rx, ret_rx, cycle,
                   n_recv, forms, stale>>

\* Variant of JoinPanic that recovers from the panic of an invocation of
\* the loop by running the fallback.
JoinPanic_Recover ==
    /\ pc \in {"join", "default_run"}
    /\ worker = "panicked"
    /\ pc' = IF pc = "join" THEN "spawn" ELSE "panicked"
    /\ worker' = IF pc = "join" THEN "idle" ELSE worker
    /\ run_fn' = 0
    /\ UNCHANGED <<envVars, fs, cargo, logs, lib, running_lib, open_libs,
                   watchVars, duat_q, duat_rx, prev, inv_kind, inv_lib,
                   inv_files, inv_rx, ret_files, ret_rx, cycle, n_recv,
                   forms, stale>>

\* main 152-153 (.join().unwrap()) and 72: a panic of the invocation
\* unwinds main.
JoinPanic ==
    /\ pc \in {"join", "default_run"}
    /\ worker = "panicked"
    /\ pc' = "panicked"
    /\ UNCHANGED <<envVars, fs, cargo, logs, libVars, watchVars, duat_q,
                   duat_rx, prev, invVars, n_recv, forms, stale>>

\* Variant of ClearForms that clears the table only after an entry point
\* has run.
ClearForms_OnlyModule ==
    /\ pc = "clear"
    /\ forms' = IF inv_kind = "module" THEN "clean" ELSE forms
    /\ pc' = "close"
    /\ UNCHANGED <<envVars, fs, cargo, logs, libVars, watchVars, duat_q,
                   duat_rx, prev, invVars, n_recv, stale>>

\* main 156: duat_core::form::clear()
ClearForms ==
    /\ pc = "clear"
    /\ forms' = "clean"
    /\ pc' = "close"
    /\ UNCHANGED <<envVars, fs, cargo, logs, libVars, watchVars, duat_q,
                   duat_rx, prev, invVars, n_recv, stale>>

\* Variant of CloseRunningLib that may close the library before the join.
CloseRunningLib_BeforeJoin ==
    /\ pc \in {"join", "close"}
    /\ pc = "join" => running_lib.id \in open_libs
    /\ open_libs' = open_libs \ {running_lib.id}
    /\ running_lib' = IF pc = "close" THEN NoLib ELSE running_lib
    /\ pc' = IF pc = "close" THEN "check" ELSE pc
    /\ UNCHANGED <<envVars, fs, cargo, logs, lib, run_fn,
                   watchVars, duat_q, duat_rx, prev, invVars, n_recv,
                   forms, stale>>

\* Variant of CloseRunningLib that closes only a library whose entry point
\* was run.
CloseRunningLib_OnlyModule ==
    /\ pc = "close"
    /\ open_libs' = IF inv_kind = "module"
                    THEN open_libs \ {running_lib.id} ELSE open_libs
    /\ running_lib' = NoLib
    /\ pc' = "check"
    /\ UNCHANGED <<envVars, fs, cargo, logs, lib, run_fn,
                   watchVars, duat_q, duat_rx, prev, invVars, n_recv,
                   forms, stale>>

\* Variant of CloseRunningLib that leaves the library of the cycle open.
CloseRunningLib_Leak ==
    /\ pc = "close"
    /\ open_libs' = open_libs
    /\ running_lib' = NoLib
    /\ pc' = "check"
    /\ UNCHANGED <<envVars, fs, cargo, logs, lib, run_fn,
                   watchVars, duat_q, duat_rx, prev, invVars, n_recv,
                   forms, stale>>

\* main 158-160: close the library of the finished cycle, if any.
CloseRunningLib ==
    /\ pc = "close"
    /\ open_libs' = open_libs \ {running_lib.id}
    /\ running_lib' = NoLib
    /\ pc' = "check"
    /\ UNCHANGED <<envVars, fs, cargo, logs, lib, run_fn,
                   watchVars, duat_q, duat_rx, prev, invVars, n_recv,
                   forms, stale>>

\* Variant of CheckPrev that never leaves the loop.
CheckPrev_NoBreak ==
    /\ pc = "check"
    /\ pc' = "recv"
    /\ UNCHANGED <<envVars, fs, cargo, logs, libVars, watchVars, duat_q,
                   duat_rx, prev, invVars, n_recv, forms, stale>>

\* main 162-164 and 179-181: leave the loop on an empty collection.
CheckPrev ==
    /\ pc = "check"
    /\ pc' = IF prev = 0 THEN "done" ELSE "recv"
    /\ UNCHANGED <<envVars, fs, cargo, logs, libVars, watchVars, duat_q,
                   duat_rx, prev, invVars, n_recv, forms, stale>>

\* main 166-176: take the next Watch Signal, log the reload and open the
\* artifact it names; a failed open leaves `lib` empty.  The library of
\* the n-th Library::new of the process is numbered n.  The cycle is over:
\* nothing is recorded about its invocation any more.
RecvReload(ok) ==
    /\ pc = "recv"
    /\ reload_q # <<>>
    /\ cycle < MaxCycles
    /\ reload_q' = Tail(reload_q)
    /\ n_recv' = n_recv + 1
    /\ logs' = logs \cup {"Reloaded"}
    /\ IF ok
       THEN /\ lib' = [id |-> n_recv + 2, path |-> Head(reload_q).so_path]
            /\ open_libs' = open_libs \cup {n_recv + 2}
       ELSE /\ lib' = NoLib
            /\ UNCHANGED open_libs
    /\ inv_kind' = "none"
    /\ inv_lib' = NoLib
    /\ run_last' = 0
    /\ stale' = (Len(reload_q) > 1)
    /\ pc' = "loop"
    /\ UNCHANGED <<envVars, fs, cargo, running_lib, run_fn, watcher,
                   sent_reload, n_create, duat_q, duat_rx, prev, worker,
                   inv_files, inv_rx, ret_files, ret_rx, cycle, forms>>

\* main 166: recv().unwrap() when every sender is gone: the watcher that
\* failed to set up was dropped together with its callback.
RecvDisconnected ==
    /\ pc = "recv"
    /\ reload_q = <<>>
    /\ watcher = "failed"
    /\ pc' = "panicked"
    /\ UNCHANGED <<envVars, fs, cargo, logs, libVars, watchVars, duat_q,
                   duat_rx, prev, invVars, n_recv, forms, stale>>

\* --------------------------------------------------------------- watcher
WatcherLive == watcher = "ok" /\ pc \notin Terminal

\* Variant of WatcherOnCreate that only records the creation.
WatcherOnCreate_RecordOnly(loc) ==
    /\ WatcherLive
    /\ Len(reload_q) < MaxSignals
    /\ n_create < MaxSignals + MaxCycles
    /\ sent_reload' = TRUE
    /\ n_create' = n_create + 1
    /\ UNCHANGED <<pc, envVars, fs, cargo, logs, libVars, watcher, reload_q,
                   run_last, duat_q, duat_rx, prev, invVars, n_recv, forms, stale>>

\* spawn_watcher 196-204: an artifact was created in a watched directory.
WatcherOnCreate(loc) ==
    /\ WatcherLive
    /\ Len(reload_q) < MaxSignals
    /\ reload_q' = Append(reload_q, Signal(loc))
    /\ sent_reload' = TRUE
    /\ n_create' = n_create + 1
    /\ run_last' = IF worker = "running" THEN Len(reload_q) + 1 ELSE run_last
    /\ UNCHANGED <<pc, envVars, fs, cargo, logs, libVars, watcher, duat_q,
                   duat_rx, prev, invVars, n_recv, forms, stale>>

\* Variant of WatcherOnLockClose that does not test sent_reload.
WatcherOnLockClose_Ungated ==
    /\ WatcherLive
    /\ Len(duat_q) < MaxQ
    /\ duat_q' = Append(duat_q, "ReloadConfig")
    /\ sent_reload' = FALSE
    /\ UNCHANGED <<pc, envVars, fs, cargo, logs, libVars, watcher, reload_q,
                   n_create, run_last, duat_rx, prev, invVars, n_recv, forms,
                   stale>>

\* spawn_watcher 205-213: write access to a .cargo-lock was closed while
\* sent_reload is set (without it the event falls to the empty arm, 214).
WatcherOnLockClose ==
    /\ WatcherLive
    /\ sent_reload
    /\ Len(duat_q) < MaxQ
    /\ duat_q' = Append(duat_q, "ReloadConfig")
    /\ sent_reload' = FALSE
    /\ UNCHANGED <<pc, envVars, fs, cargo, logs, libVars, watcher, reload_q,
                   n_create, run_last, duat_rx, prev, invVars, n_recv, forms, stale>>

\* The UI sends an application event through duat_tx (main 121).
UiEvent ==
    /\ pc \notin Terminal
    /\ watcher # "none" \/ worker = "running"
    /\ Len(duat_q) < MaxQ
    /\ duat_q' = Append(duat_q, "Key")
    /\ UNCHANGED <<pc, envVars, fs, cargo, logs, libVars, watchVars, duat_rx,
                   prev, invVars, n_recv, forms, stale>>

\* ------------------------------------------------------------------ Next
Next ==
    \/ CheckCrateDir
    \/ DefaultReturn
    \/ \E built \in Probed \cup {"none"} : FirstCompile(built)
    \/ SkipCompile
    \/ \E ok \in BOOLEAN : FindAndOpen(ok)
    \/ \E failing \in 0..4 : SpawnWatcher(failing)
    \/ \E has_sym \in BOOLEAN : LoopTop(has_sym)
    \/ SpawnWorker
    \/ WorkerConsume
    \/ \E files \in Files : WorkerReturn(files)
    \/ WorkerPanic
    \/ Join
    \/ JoinPanic
    \/ ClearForms
    \/ CloseRunningLib
    \/ CheckPrev
    \/ \E ok \in BOOLEAN : RecvReload(ok)
    \/ RecvDisconnected
    \/ \E loc \in CreatedLocs : WatcherOnCreate(loc)
    \/ WatcherOnLockClose
    \/ UiEvent

Spec == Init /\ [][Next]_vars

\* ------------------------------------------- reload-driven invocations
\* The runs in which an invocation goes on to another cycle only because
\* of a ReloadConfig event of the Watcher: it takes other events as they
\* come, returns an empty collection when it is quit, and returns a
\* non-empty one when the event it takes is ReloadConfig.
WorkerConsumeKey ==
    /\ worker = "running"
    /\ duat_q # <<>>
    /\ Head(duat_q) = "Key"
    /\ duat_q' = Tail(duat_q)
    /\ UNCHANGED <<pc, envVars, fs, cargo, logs, libVars, watchVars, duat_rx,
                   prev, invVars, n_recv, forms, stale>>

ReloadDrivenReturn(files) ==
    IF files = 0
    THEN WorkerReturn(0)
    ELSE /\ worker = "running"
         /\ duat_q # <<>>
         /\ Head(duat_q) = "ReloadConfig"
         /\ duat_q' = Tail(duat_q)
         /\ worker' = "returned"
         /\ ret_files' = files
         /\ ret_rx' = inv_rx
         /\ inv_files' = 0
         /\ forms' = "dirty"
         /\ UNCHANGED <<pc, envVars, fs, cargo, logs, libVars, watchVars,
                        duat_rx, prev, inv_kind, inv_lib, inv_rx, cycle,
                        n_recv, stale>>

\* Next with the invocation's steps replaced by the reload-driven ones.
\* Without a working Watcher no ReloadConfig is ever sent, so main never
\* reaches the recv of 166 and RecvDisconnected has no place here.
NextReloadDriven ==
    \/ CheckCrateDir
    \/ DefaultReturn
    \/ \E built \in Probed \cup {"none"} : FirstCompile(built)
    \/ SkipCompile
    \/ \E ok \in BOOLEAN : FindAndOpen(ok)
    \/ \E failing \in 0..4 : SpawnWatcher(failing)
    \/ \E has_sym \in BOOLEAN : LoopTop(has_sym)
    \/ SpawnWorker
    \/ WorkerConsumeKey
    \/ \E files \in Files : ReloadDrivenReturn(files)
    \/ WorkerPanic
    \/ Join
    \/ JoinPanic
    \/ ClearForms
    \/ CloseRunningLib
    \/ CheckPrev
    \/ \E ok \in BOOLEAN : RecvReload(ok)
    \/ \E loc \in CreatedLocs : WatcherOnCreate(loc)
    \/ WatcherOnLockClose
    \/ UiEvent

SpecReloadDriven == Init /\ [][NextReloadDriven]_vars

TypeOK ==
    /\ pc \in {"start", "default_run", "probe", "find", "watcher", "loop",
               "spawn", "join", "clear", "close", "check", "recv"}
              \cup Terminal
    /\ fs \subseteq Locs
    /\ cargo \in {"not_run", "ok", "failed"}
    /\ run_fn \in 0..(n_recv + 1)
    /\ open_libs \subseteq 1..(n_recv + 1)
    /\ watcher \in {"none", "ok", "failed"}
    /\ Len(reload_q) <= MaxSignals
    /\ Len(duat_q) <= MaxQ
    /\ prev \in Files
    /\ worker \in {"idle", "running", "returned", "panicked"}
    /\ cycle \in 0..MaxCycles

\* ---------------------------------------------------------------- claims
IsPrefix(a, b) == Len(a) <= Len(b) /\ SubSeq(b, 1, Len(a)) = a

IsReloadConfig(e) == e = "ReloadConfig"

ReloadConfigs(q) == Len(SelectSeq(q, IsReloadConfig))

\* The step closes at least one library.
Closes == open_libs' # open_libs /\ open_libs' \subseteq open_libs

C1_State ==
    /\ (worker = "running" /\ inv_kind = "module") => inv_lib.id \in open_libs
    /\ run_fn # 0 => run_fn \in open_libs

C1_Step ==
    Closes => /\ worker = "idle"
              /\ worker' = "idle"
              /\ pc = "close"
              /\ run_fn' \notin (open_libs \ open_libs')

\* C1: the entry point of a library is never executing when the library is
\* closed and is never invoked afterwards: a library is closed only after
\* the worker of its cycle has joined, a running entry point and a resolved
\* run_fn always belong to a library that is still open.
C1_NoCallOverlapsClose == []C1_State /\ [][C1_Step]_vars

\* Cycle 1's library was closed and the entry point of a later library runs.
C1_Witness ==
    /\ cycle = 2
    /\ worker = "running"
    /\ inv_kind = "module"
    /\ inv_lib.id = 2
    /\ open_libs = {2}

\* The step is an attempt to open an artifact that fails.
OpenFails ==
    /\ lib' = NoLib
    /\ \/ pc = "find" /\ pc' # pc
       \/ pc = "recv" /\ n_recv' = n_recv + 1

\* C2: whenever opening the artifact fails, at bootstrap as well as after a
\* Watch Signal, the process does not terminate and goes on to the loop
\* with no library, which runs the fallback.
C2_OpenFailureFallsBack ==
    [][OpenFails => (pc' = "loop" /\ lib' = NoLib)]_vars

\* C3: after a failed first compilation the failure is logged and the
\* process does not abort.
C3_BuildFailureFallsBack ==
    cargo = "failed" => ("BuildFailed" \in logs /\ pc # "exit_err")

\* The cycle opened a library but runs the fallback: no entry symbol.
SymbolMissing ==
    /\ pc \in {"join", "clear", "close"}
    /\ running_lib # NoLib
    /\ inv_kind = "fallback"

C4_State ==
    /\ (pc = "spawn" /\ running_lib # NoLib /\ run_fn = 0)
          => "RunFnErr" \in logs
    /\ SymbolMissing => /\ "RunFnErr" \in logs
                        /\ running_lib.id \in open_libs

C4_Step ==
    /\ (pc = "loop" /\ lib # NoLib /\ pc' # pc)
          => /\ pc' = "spawn"
             /\ running_lib' = lib
             /\ run_fn' \in {0, lib.id}
    /\ (pc = "spawn" /\ running_lib # NoLib /\ run_fn = 0 /\ pc' # pc)
          => /\ pc' = "join"
             /\ worker' = "running"
             /\ inv_kind' = "fallback"
             /\ cycle' = cycle + 1
    /\ SymbolMissing
          => /\ cycle' = cycle
             /\ worker # "panicked" => pc' \notin Terminal
             /\ (pc = "close" /\ pc' # pc)
                   => /\ pc' = "check"
                      /\ running_lib.id \notin open_libs'

\* C4: when the library opens but the entry symbol is not resolved, the
\* error is logged, the cycle runs one invocation, the fallback, the
\* process does not stop because of it, and the library is closed after
\* the fallback has returned.
C4_SymbolMissingFallsBack == []C4_State /\ [][C4_Step]_vars

\* The library opened at bootstrap had no entry symbol: the fallback ran
\* and returned, and the library is closed.
C4_Witness ==
    /\ pc = "check"
    /\ cycle = 1
    /\ n_recv = 0
    /\ inv_kind = "fallback"
    /\ "RunFnErr" \in logs
    /\ open_libs = {}

C5_State ==
    /\ n_create = Len(reload_q) + n_recv
    /\ sent_reload => n_create > 0

C5_Step ==
    /\ n_create' # n_create
          => /\ n_create' = n_create + 1
             /\ \E loc \in Locs : reload_q' = Append(reload_q, Signal(loc))
             /\ sent_reload'
             /\ duat_q' = duat_q
    /\ Len(reload_q') > Len(reload_q) => n_create' = n_create + 1
    /\ ReloadConfigs(duat_q') > ReloadConfigs(duat_q)
          => /\ sent_reload /\ ~sent_reload'
             /\ n_create' = n_create
             /\ reload_q' = reload_q
    /\ (sent_reload /\ ~sent_reload')
          => /\ duat_q' = Append(duat_q, "ReloadConfig")
             /\ reload_q' = reload_q

Ending == pc \in {"clear", "close", "check"} /\ prev = 0

C6_Step ==
    /\ (Ending \/ pc = "done")
          => /\ n_recv' = n_recv
             /\ open_libs' \subseteq open_libs
             /\ lib' = lib
             /\ cycle' = cycle
             /\ worker' = "idle"
             /\ Ending' \/ pc' = "done"
    /\ (Ending /\ pc = "check" /\ pc' # pc) => pc' = "done"

\* C6: once an invocation has returned an empty collection the Supervisor
\* leaves the loop: it takes no Watch Signal, opens no library and starts
\* no invocation any more, and ends in the terminated state.
C6_EmptyFilesTerminate == [][C6_Step]_vars

\* Terminated after the second cycle with a Watch Signal left pending.
C6_Witness ==
    /\ pc = "done"
    /\ cycle = 2
    /\ prev = 0
    /\ reload_q # <<>>

\* The step takes a Watch Signal at the end of a cycle in which a Debug
\* module ran, and the last Watch Signal sent during that run is Release.
ReleaseSentDuringDebugRun ==
    /\ pc = "recv"
    /\ n_recv' = n_recv + 1
    /\ inv_kind = "module"
    /\ ~OnRelease(inv_lib.path)
    /\ run_last > 0
    /\ reload_q[run_last].on_release

\* C7: a Release Watch Signal sent while a Debug module runs is the signal
\* taken at the end of that cycle, so its artifact is the one opened next.
C7_ReleaseSignalLoadedNext ==
    [][ReleaseSentDuringDebugRun
          => /\ Head(reload_q) = reload_q[run_last]
             /\ lib' \in {NoLib, [id |-> n_recv + 2,
                                  path |-> reload_q[run_last].so_path]}]_vars

C8_State ==
    /\ (worker = "running" /\ cycle >= 2) => inv_rx = ret_rx
    /\ (worker = "idle" /\ cycle >= 1 /\ pc # "done") => duat_rx = ret_rx

C8_Step ==
    /\ worker # "running" => IsPrefix(duat_q, duat_q')
    /\ (worker # "running" /\ worker' = "running")
          => inv_rx' = duat_rx /\ duat_q' = duat_q

\* C8: the receiver handed to an invocation is the one the previous
\* invocation returned, for module and fallback alike, and outside a
\* running invocation the event channel only grows at its end: no pending
\* event is removed or reordered by the Supervisor.
C8_ReceiverCarriedOver == []C8_State /\ [][C8_Step]_vars

\* The second invocation, a fallback, runs with two events pending.
C8_Witness ==
    /\ cycle = 2
    /\ worker = "running"
    /\ inv_kind = "fallback"
    /\ inv_rx = ret_rx
    /\ duat_q = <<"ReloadConfig", "Key">>

C10_State ==
    ~crate_exists
       => /\ pc \in {"start", "default_run", "done", "panicked"}
          /\ cargo = "not_run"
          /\ watcher = "none"
          /\ lib = NoLib
          /\ open_libs = {}
          /\ n_recv = 0
          /\ cycle <= 1
          /\ cycle = 1 => (inv_kind = "fallback" /\ inv_files = 0)
          /\ pc = "done" => cycle = 1

C10_Step ==
    (~crate_exists /\ pc' # pc)
       => \/ pc = "start" /\ pc' = "default_run" /\ worker' = "running"
          \/ pc = "default_run" /\ worker = "returned" /\ pc' = "done"
          \/ pc = "default_run" /\ worker = "panicked" /\ pc' = "panicked"

\* C10: without a configuration project the fallback runs once, with an
\* empty file collection, and the process ends whatever it returns; the
\* Builder, the Watcher, the library loader and the reload channel are
\* never used.
C10_NoCrateRunsDefaultOnce == []C10_State /\ [][C10_Step]_vars

\* The default run returned a non-empty collection and the process ended.
C10_Witness ==
    /\ ~crate_exists
    /\ pc = "done"
    /\ cycle = 1
    /\ ret_files = 1
    /\ "NoCrate" \in logs

\* The step opens a library.
Opens == open_libs' \ open_libs # {}

C11_State ==
    /\ Cardinality(open_libs) <= 1
    /\ open_libs \subseteq {lib.id, running_lib.id}
    /\ lib # NoLib => running_lib = NoLib

C11_Step ==
    Opens => /\ open_libs = {}
             /\ running_lib = NoLib
             /\ Cardinality(open_libs') = 1

\* C11: at most one loaded library is open in every reachable state, and a
\* library is opened only when none is open: the library of a cycle is
\* closed before the library of the next cycle is opened.
C11_OneLibraryOpen == []C11_State /\ [][C11_Step]_vars

\* Library 1 ran and was closed, then library 2 was opened for cycle 2.
C11_Witness ==
    /\ pc = "loop"
    /\ cycle = 1
    /\ lib.id = 2
    /\ running_lib = NoLib
    /\ open_libs = {2}

\* The Supervisor holds the collection between two invocations.
BetweenCycles == pc \in {"clear", "close", "check", "recv", "loop", "spawn"}

C12_State ==
    /\ (cycle = 1 /\ worker = "running") => inv_files = 0
    /\ (pc \in {"watcher", "loop", "spawn"} /\ cycle = 0) => prev = 0

C12_Step ==
    /\ (worker # "running" /\ worker' = "running")
          => /\ inv_files' = prev
             /\ inv_kind' \in {"module", "fallback"}
             /\ cycle = 0 => inv_files' = 0
    /\ (pc = "join" /\ worker = "returned" /\ pc' # pc)
          => prev' = ret_files
    /\ (BetweenCycles /\ worker' # "running") => prev' = prev

\* C12: the first invocation gets an empty file collection; every later
\* invocation, entry point or fallback, gets exactly the collection the
\* previous invocation returned: the join stores it in prev, nothing
\* between the join and the next spawn changes prev, and the spawn hands
\* prev over.
C12_FilesCarriedOver == []C12_State /\ [][C12_Step]_vars

\* The second invocation is the fallback and runs with the non-empty
\* collection the first one returned.
C12_Witness ==
    /\ cycle = 2
    /\ worker = "running"
    /\ inv_kind = "fallback"
    /\ inv_files = 1
    /\ n_recv = 1

\* The step is the one in which main decides whether to compile.
ProbeStep == pc = "probe" /\ pc' # pc

\* The step invokes the Builder.
BuilderRuns == cargo' # cargo

\* C13 as stated: the Builder is invoked if and only if none of the four
\* candidate locations holds an artifact.
C13_BuilderIffNoArtifactAnywhere ==
    [][ProbeStep => (BuilderRuns <=> fs \cap Locs = {})]_vars

\* Neither directory of the runner's own build profile holds an artifact.
OwnProfileEmpty == \A i \in 1..2 : SoDirs(debug_assertions)[i] \notin fs

C13_Step ==
    /\ BuilderRuns => /\ pc = "probe"
                      /\ cargo = "not_run"
                      /\ cycle = 0
                      /\ n_recv = 0
                      /\ lib = NoLib
                      /\ open_libs = {}
                      /\ watcher = "none"
    /\ ProbeStep => (BuilderRuns <=> OwnProfileEmpty)

\* C13 amended: the Builder is invoked at most once, only at bootstrap
\* before the first load attempt and never from the reload loop, and it is
\* invoked if and only if neither of the two output locations of the
\* runner's own build profile (with and without target qualifier) holds an
\* artifact; artifacts of the other profile are not looked at.
C13_BuilderIffOwnProfileEmpty == [][C13_Step]_vars

\* A debug runner compiled although a Release artifact was there.
C13_Witness ==
    /\ debug_assertions
    /\ cargo = "ok"
    /\ fs = {"trelease", "debug"}
    /\ pc = "loop"
    /\ cycle = 0

\* The step takes a Watch Signal and opens the artifact it names.
ReloadOpens == pc = "recv" /\ n_recv' = n_recv + 1 /\ lib' # NoLib

\* The callback has seen a creation of the artifact at `path` that no lock
\* release has followed yet: sent_reload is set by a creation and cleared
\* by the next lock release, and the Watch Signal of the latest creation is
\* the last one in the reload channel while any is pending.
BuildInProgress(path) ==
    /\ sent_reload
    /\ reload_q # <<>>
    /\ reload_q[Len(reload_q)].so_path = path

\* C14: when the Supervisor opens an artifact in the reload loop, every
\* creation of that artifact the Watcher has seen was followed by a lock
\* release: no build of it is still in progress.
C14_NoOpenDuringBuild ==
    [][ReloadOpens => ~BuildInProgress(lib'.path)]_vars

\* Positions of main inside a cycle before and after its invocation.
BeforeInvocation == pc \in {"loop", "spawn"}
AfterInvocation == pc \in {"clear", "close", "check", "recv"}

C15_State ==
    /\ worker \in {"running", "returned"} => pc \in {"join", "default_run"}
    /\ worker = "panicked" => pc \in {"join", "default_run", "panicked"}
    /\ pc = "join" => worker # "idle"
    /\ BeforeInvocation => cycle = n_recv
    /\ (pc = "join" \/ AfterInvocation) => cycle = n_recv + 1
    /\ (pc = "join" \/ AfterInvocation)
          => inv_kind \in {"module", "fallback"}

C15_Step ==
    /\ cycle' \in {cycle, cycle + 1}
    /\ cycle' = cycle + 1
          => /\ worker = "idle"
             /\ worker' = "running"
             /\ inv_kind' = IF run_fn # 0 THEN "module" ELSE "fallback"
    /\ (pc = "join" /\ pc' = "clear")
          => /\ worker = "returned"
             /\ worker' = "idle"
    /\ (pc = "join" \/ AfterInvocation) => inv_kind' \in {inv_kind, "none"}

\* C15: an invocation is started only when none is running, main waits
\* in the join while it runs and goes on only after it has returned, and
\* every cycle starts exactly one invocation, the entry point when it was
\* resolved and the fallback otherwise.
C15_OneInvocationPerCycle == []C15_State /\ [][C15_Step]_vars

\* The second cycle ran the entry point to completion after the first
\* cycle ran the fallback.
C15_Witness ==
    /\ pc = "clear"
    /\ cycle = 2
    /\ n_recv = 1
    /\ worker = "idle"
    /\ inv_kind = "module"
    /\ "FailedLoad" \in logs

C16_State ==
    /\ BeforeInvocation => cycle = n_recv
    /\ (pc = "recv" /\ cycle >= 2) => ~stale

C16_Step ==
    /\ n_recv' # n_recv
          => /\ n_recv' = n_recv + 1
             /\ reload_q # <<>>
             /\ reload_q' = Tail(reload_q)
             /\ pc = "recv"
             /\ worker = "idle"
             /\ prev # 0
    /\ Len(reload_q') < Len(reload_q) => n_recv' = n_recv + 1

\* C16: one Watch Signal is taken between two consecutive invocations,
\* none while an invocation runs and none after an empty collection was
\* returned, and when the Supervisor comes to take the Watch Signal of a
\* later reload, none is pending that was already pending when the
\* previous one was taken.
C16_OneSignalPerCycleNoneStale == []C16_State /\ [][C16_Step]_vars

\* The fallback of a cycle of the loop has returned a non-empty collection.
FallbackContinues ==
    /\ pc \in {"clear", "close", "check", "recv"}
    /\ inv_kind = "fallback"
    /\ prev # 0

C17_State ==
    /\ (pc \in {"join", "clear", "close", "check", "recv"}
           /\ inv_kind = "fallback") => "FailedLoad" \in logs
    /\ (pc = "spawn" /\ lib = NoLib /\ running_lib = NoLib) => run_fn = 0

C17_Step ==
    /\ (FallbackContinues /\ pc' # pc)
          => /\ pc \in {"clear", "close", "check"} => pc' \notin Terminal
             /\ pc = "check" => pc' = "recv"
             /\ pc = "recv"
                   => /\ pc' \in {"loop", "panicked"}
                      /\ pc' = "loop"
                            => /\ reload_q # <<>>
                               /\ n_recv' = n_recv + 1
                               /\ lib' \in {NoLib,
                                            [id |-> n_recv + 2,
                                             path |-> Head(reload_q).so_path]}
    /\ (pc = "loop" /\ "FailedLoad" \in logs /\ lib # NoLib /\ pc' # pc)
          => /\ pc' = "spawn"
             /\ running_lib' = lib
             /\ run_fn' \in {0, lib.id}
    /\ (pc = "spawn" /\ "FailedLoad" \in logs /\ run_fn # 0 /\ pc' # pc)
          => /\ inv_kind' = "module"
             /\ inv_lib' = running_lib
             /\ inv_lib'.id = run_fn
             /\ inv_files' = prev

C18_State ==
    /\ pc = "clear" => forms = "dirty"
    /\ pc \in {"close", "check", "recv", "loop", "spawn"} => forms = "clean"
    /\ pc \in {"check", "recv"} => (open_libs = {} /\ running_lib = NoLib)

C18_Step ==
    /\ (pc = "join" /\ pc' # pc) => pc' \in {"clear", "panicked"}
    /\ (pc' = "clear" /\ pc # "clear")
          => /\ pc = "join"
             /\ worker = "returned"
             /\ open_libs' = open_libs
    /\ (pc = "clear" /\ pc' # pc)
          => /\ pc' = "close"
             /\ forms' = "clean"
             /\ open_libs' = open_libs
             /\ running_lib' = running_lib
    /\ (forms = "dirty" /\ forms' = "clean") => pc = "clear"
    /\ (pc = "close" /\ pc' # pc)
          => /\ pc' = "check"
             /\ open_libs' = open_libs \ {running_lib.id}
             /\ forms' = forms
    /\ (pc = "check" /\ pc' # pc)
          => /\ pc' = IF prev = 0 THEN "done" ELSE "recv"
             /\ forms' = forms
    /\ (pc \in {"join", "clear", "close", "check"})
          => (n_recv' = n_recv /\ reload_q' \in {reload_q} \cup
                 {Append(reload_q, Signal(loc)) : loc \in Locs})
    /\ (pc = "recv" /\ pc' # pc) => pc' \in {"loop", "panicked"}

\* C18: after an invocation of the loop has returned the Supervisor clears
\* the forms table, then closes the library of the cycle if there is one,
\* then tests the returned collection, and only then takes a Watch Signal;
\* the table is cleared once per cycle, at that place only, after a
\* fallback as after an entry point, and is clean when the next invocation
\* starts.
C18_ClearCloseCheckWait == []C18_State /\ [][C18_Step]_vars

\* The second cycle ran the fallback; the table was cleared and the
\* Supervisor waits for a Watch Signal.
C18_Witness ==
    /\ pc = "recv"
    /\ cycle = 2
    /\ inv_kind = "fallback"
    /\ forms = "clean"
    /\ open_libs = {}
    /\ prev = 1

C19_State ==
    worker = "panicked" => /\ pc \in {"join", "default_run", "panicked"}
                           /\ ret_files = 0

C19_Step ==
    /\ (worker = "running" /\ worker' = "panicked") => pc' = pc
    /\ worker = "panicked"
          => /\ worker' = "panicked"
             /\ pc' \in {pc, "panicked"}
             /\ n_recv' = n_recv
             /\ Len(reload_q') >= Len(reload_q)
             /\ cycle' = cycle
             /\ lib' = lib
             /\ open_libs' \subseteq open_libs
             /\ inv_kind' = inv_kind
             /\ prev' = prev
             /\ duat_rx' = duat_rx
             /\ forms' = forms
    /\ (pc = "panicked" /\ worker = "panicked") => pc' = "panicked"

\* C19: when an invocation panics, the join hands the panic to the
\* Supervisor, which stops: from then on it takes no Watch Signal, opens
\* no library and starts no invocation, in particular no fallback, and
\* what it holds of the session (prev, duat_rx) is left as it was.
C19_WorkerPanicIsFatal == []C19_State /\ [][C19_Step]_vars

\* The entry point of the second library panicked with a Watch Signal
\* pending; the process stopped without taking it.
C19_Witness ==
    /\ pc = "panicked"
    /\ worker = "panicked"
    /\ cycle = 2
    /\ inv_kind = "module"
    /\ reload_q # <<>>
    /\ n_recv = 1

\* Invocations that have returned a non-empty collection so far: one for
\* every Watch Signal taken, and the one of the cycle that is ending.
NonTerminalReturns ==
    n_recv + (IF \/ worker = "returned" /\ ret_files # 0
                 \/ pc \in {"clear", "close", "check", "recv"} /\ prev # 0
              THEN 1 ELSE 0)

\* ReloadConfig events sent so far in a reload-driven run: those taken,
\* one by every non-terminal return, and those still in the channel.
ReloadConfigsSent == NonTerminalReturns + ReloadConfigs(duat_q)

C20_State ==
    /\ n_create = Len(reload_q) + n_recv
    /\ n_create >= ReloadConfigsSent
    /\ sent_reload => n_create > ReloadConfigsSent
    /\ pc = "recv" => reload_q # <<>>

C20_Step ==
    /\ ReloadConfigs(duat_q') > ReloadConfigs(duat_q)
          => /\ sent_reload /\ ~sent_reload'
             /\ duat_q' = Append(duat_q, "ReloadConfig")
             /\ ReloadConfigsSent' = ReloadConfigsSent + 1
             /\ n_create' = n_create
    /\ ReloadConfigs(duat_q') < ReloadConfigs(duat_q)
          => /\ worker = "running" /\ worker' = "returned"
             /\ ret_files' # 0
             /\ Head(duat_q) = "ReloadConfig"
             /\ duat_q' = Tail(duat_q)
             /\ ReloadConfigsSent' = ReloadConfigsSent
    /\ ReloadConfigs(duat_q') = ReloadConfigs(duat_q)
          => ReloadConfigsSent' = ReloadConfigsSent
    /\ (~sent_reload /\ sent_reload') => n_create' = n_create + 1
    /\ (pc = "recv" /\ pc' # pc) => (pc' = "loop" /\ n_recv' = n_recv + 1)

\* C20: a ReloadConfig event is sent only by a lock release that finds
\* sent_reload set, that is after a creation that no ReloadConfig has
\* followed yet, so the Watch Signals sent are never fewer than the
\* ReloadConfig events sent; and in the runs in which every non-terminal
\* return takes one ReloadConfig event, a Watch Signal is pending whenever
\* the Supervisor waits for one: the wait does not block.
C20_SignalsCoverReloadConfigs == []C20_State /\ [][C20_Step]_vars

\* Two builds, each with its lock release, drove two returns: one Watch
\* Signal was taken and the other is there for the second wait.
C20_Witness ==
    /\ pc = "recv"
    /\ cycle = 2
    /\ n_recv = 1
    /\ n_create = 2
    /\ ReloadConfigsSent = 2
    /\ reload_q # <<>>

====
